---- MODULE Spec2Model ----
(***************************************************************************)
(* A model of quill's offline signing commands:                            *)
(*   - sign      (src/src/commands/sign.rs):  query/update decision, the   *)
(*     envelope's timing, the effective canister of management calls;      *)
(*   - transfer  (src/src/commands/transfer.rs): amount resolution and the *)
(*     two-call pipeline (ledger update call + status poll);               *)
(*   - neuron    (src/src/commands/neuron.rs): the staking flow, a caller  *)
(*     of transfer.                                                        *)
(*                                                                         *)
(* One command runs per behaviour: sign is one atomic handler, transfer    *)
(* advances one pipeline stage per step.                                   *)
(*                                                                         *)
(* Integers are scaled: TLC's integers are 32 bits wide, so the 64-bit     *)
(* quantities of the code are modelled with a 30-bit unsigned word and a   *)
(* 29-bit signed maximum.  The order of the thresholds the code depends on *)
(* is kept:  now < DateTime range < chrono::Duration range (i64 ms)        *)
(*           < SystemTime range (i64 s) < u64.                             *)
(***************************************************************************)
EXTENDS Integers, Sequences, FiniteSets, TLC

VARIABLES
    pc,          \* "idle" | "sign" | "transfer": the command this run executes
    opts,        \* sign: the SignOpts and environment the handler ran with
    res,         \* sign: what the handler returned
    signedCalls, \* the calls the signing transport captured, in order
    files,       \* sign: the envelope files the transport wrote
    topts,       \* transfer: the TransferOpts exec was entered with
    caller,      \* transfer: "cli" | "neuron" | "api"
    tstate,      \* transfer: the pipeline stage reached
    tfailed,     \* transfer: "no" | "error" | "panic"
    amount,      \* transfer: the resolved amount (e8s), -1 before resolution
    args,        \* transfer: the encoded SendArgs
    ingress,     \* transfer: the signed ledger call (msg_with_req_id)
    reqStatus,   \* transfer: the signed status poll
    bundle,      \* transfer: the document exec returns
    neuron       \* neuron: the name exec was given and the nonce it derived

vars == <<pc, opts, res, signedCalls, files, topts, caller, tstate, tfailed,
          amount, args, ingress, reqStatus, bundle, neuron>>

signVars == <<opts, res, files>>
transferVars == <<topts, caller, tstate, tfailed, amount, args, ingress,
                  reqStatus, bundle, neuron>>

----------------------------------------------------------------------------
(* Bounds of the model *)

\* the clock reads 1..MaxNow seconds at SystemTime::now()
MaxNow == 2
\* seconds that may pass between SystemTime::now() and Utc::now()
MaxSkew == 1

----------------------------------------------------------------------------
(* Scaled machine words *)

\* u64::MAX stand-in (30 bits)
U64Max == 2^30 - 1
\* i64::MAX stand-in (29 bits)
I64Max == 2^29 - 1
\* two's complement modulus of the scaled word
WordMod == 2^30
\* std::time::Duration's nanoseconds per second
NanosPerSec == 1000000000
\* SystemTime holds i64 seconds
SystemTimeMaxSecs == I64Max
\* chrono::Duration holds i64 milliseconds: MAX is i64::MAX / 1000 seconds
ChronoDurationMaxSecs == I64Max \div 1000
\* chrono's DateTime ends with year 262143, far below the Duration range
DateTimeMaxSecs == 100000

----------------------------------------------------------------------------
(* Principals *)

ManagementCanister == "aaaaa-aa"
LEDGER_CANISTER_ID == "ledger"
Canisters == {ManagementCanister, LEDGER_CANISTER_ID}
TargetIds == {"c1", "c2"}

NoId == "-"

----------------------------------------------------------------------------
(* sign: the query/update decision, sign.rs 66-85 *)

\* a copy of IsQueryDecision in which a known query method honours --query
\* instead of --update
IsQueryDecisionIgnoresUpdate(kind, query, update) ==
    CASE kind = "query"  -> IF query THEN "query" ELSE "update"
      [] kind = "update" -> IF query THEN "mismatch" ELSE "update"
      [] OTHER           -> IF query THEN "query" ELSE "update"

\* is_query_method = Some(true) | Some(false) | None is kind = "query" |
\* "update" | "none"; the result is "query" (is_query), "update" (!is_query)
\* or "mismatch" (the bail!)
IsQueryDecision(kind, query, update) ==
    CASE kind = "query"  -> IF ~update THEN "query" ELSE "update"
      [] kind = "update" -> IF query THEN "mismatch" ELSE "update"
      [] OTHER           -> IF query THEN "query" ELSE "update"

----------------------------------------------------------------------------
(* sign: the expire_after duration, sign.rs 110-120 *)

\* An expire_after string is a sequence of "<number><unit>" terms; the
\* literal "0" is the one term [n |-> 0, u |-> ""].
UnitSecs(u) ==
    CASE u = "s" -> 1
      [] u = "m" -> 60
      [] u = "h" -> 3600
      [] OTHER   -> 0

KnownUnits == {"ms", "s", "m", "h"}

ParseFail == [ok |-> FALSE, secs |-> 0, nanos |-> 0]

\* one term as a Duration, or a failure (unknown or missing unit, overflow)
TermDuration(t) ==
    IF t.u \notin KnownUnits THEN ParseFail
    ELSE IF t.u = "ms"
         THEN [ok |-> TRUE, secs |-> t.n \div 1000,
               nanos |-> (t.n % 1000) * 1000000]
         ELSE IF t.n > U64Max \div UnitSecs(t.u) THEN ParseFail
              ELSE [ok |-> TRUE, secs |-> t.n * UnitSecs(t.u), nanos |-> 0]

\* checked addition of two Durations
AddDuration(a, b) ==
    LET ns == a.nanos + b.nanos
        carry == ns \div NanosPerSec
    IN IF ~a.ok \/ ~b.ok THEN ParseFail
       ELSE IF a.secs > U64Max - b.secs - carry THEN ParseFail
       ELSE [ok |-> TRUE, secs |-> a.secs + b.secs + carry,
             nanos |-> ns % NanosPerSec]

RECURSIVE SumTerms(_)
SumTerms(s) ==
    IF s = <<>> THEN [ok |-> TRUE, secs |-> 0, nanos |-> 0]
    ELSE AddDuration(TermDuration(Head(s)), SumTerms(Tail(s)))

\* humanize_rs::duration::parse as called at sign.rs 110
ParseDuration(s) ==
    IF s = <<>> THEN ParseFail
    ELSE IF s = <<[n |-> 0, u |-> ""]>>
         THEN [ok |-> TRUE, secs |-> 0, nanos |-> 0]
         ELSE SumTerms(s)

\* `timeout.as_secs() as i64`: the two's complement reading of a u64
AsI64(x) == IF x > I64Max THEN x - WordMod ELSE x

\* SystemTime::now().checked_add(timeout): None on overflow of the i64 seconds
SystemTimeCheckedAdd(now, d) ==
    IF d.secs > SystemTimeMaxSecs - now
    THEN [some |-> FALSE, secs |-> 0, nanos |-> 0]
    ELSE [some |-> TRUE, secs |-> now + d.secs, nanos |-> d.nanos]

\* chrono::Duration::seconds panics outside of [-MAX, MAX]
ChronoSecondsPanics(secs) ==
    secs > ChronoDurationMaxSecs \/ secs < -ChronoDurationMaxSecs

\* DateTime::checked_add_signed: None outside of the DateTime range
DateTimeCheckedAdd(creation, secs) ==
    IF creation.secs + secs > DateTimeMaxSecs \/ creation.secs + secs < 0
    THEN [some |-> FALSE, secs |-> 0, nanos |-> 0]
    ELSE [some |-> TRUE, secs |-> creation.secs + secs,
          nanos |-> creation.nanos]

----------------------------------------------------------------------------
(* sign: the effective canister, sign.rs 180-232 *)

\* MgmtMethod's variants, named as MgmtMethod::from_str reads them
LifecycleMethods ==
    {"start_canister", "stop_canister", "canister_status", "delete_canister",
     "deposit_cycles", "uninstall_code", "provisional_top_up_canister"}

InterCanisterOnlyMethods == {"create_canister", "raw_rand"}

MgmtMethods ==
    InterCanisterOnlyMethods \cup LifecycleMethods \cup
    {"install_code", "update_settings",
     "provisional_create_canister_with_cycles"}

\* The argument bytes: either no Candid value at all (candid = FALSE), or a
\* Candid record, described by the names of its fields and the principal in
\* its canister_id field.
NotCandid == [candid |-> FALSE, fields |-> {}, cid |-> NoId]

IdRecord(c) == [candid |-> TRUE, fields |-> {"canister_id"}, cid |-> c]

SettingsRecord(c) ==
    [candid |-> TRUE, fields |-> {"canister_id", "settings"}, cid |-> c]

InstallRecord(c) ==
    [candid |-> TRUE,
     fields |-> {"mode", "canister_id", "wasm_module", "arg"}, cid |-> c]

\* the fields of the record types the resolver decodes
CanisterInstallFields == {"mode", "canister_id", "wasm_module", "arg"}
UpdateSettingsInFields == {"canister_id", "settings"}
LifecycleInFields == {"canister_id"}

\* candid::Decode!(arg_value, T): a record decodes as T when it has T's
\* fields (further fields are skipped)
Decodes(arg, fields) == arg.candid /\ fields \subseteq arg.fields

ResolveOk(id) == [ok |-> TRUE, id |-> id, err |-> "-"]
ResolveErr(e) == [ok |-> FALSE, id |-> NoId, err |-> e]

\* the record a method's argument is decoded as
DecodedAs(method_name) ==
    CASE method_name = "install_code"    -> CanisterInstallFields
      [] method_name = "update_settings" -> UpdateSettingsInFields
      [] OTHER                           -> LifecycleInFields

\* a copy of GetEffectiveCanisterId that returns the literal call target for
\* every method that names its target in the argument
GetEffectiveCanisterIdLiteral(is_management_canister, method_name, arg_value, canister_id) ==
    IF is_management_canister
    THEN IF method_name \notin MgmtMethods
         THEN ResolveErr("UnsupportedManagementMethod")
         ELSE IF method_name \in InterCanisterOnlyMethods
         THEN ResolveErr("RequiresInterCanisterContext")
         ELSE IF method_name = "provisional_create_canister_with_cycles"
         THEN ResolveOk(ManagementCanister)
         ELSE IF Decodes(arg_value, DecodedAs(method_name))
              THEN ResolveOk(canister_id)
              ELSE ResolveErr("ArgumentDecodeError")
    ELSE ResolveOk(canister_id)

\* a copy of GetEffectiveCanisterId that looks every method name up, whatever
\* the call's target is
GetEffectiveCanisterIdAlwaysLooksUp(is_management_canister, method_name, arg_value, canister_id) ==
    IF method_name \notin MgmtMethods
    THEN ResolveErr("UnsupportedManagementMethod")
    ELSE ResolveOk(canister_id)

\* a copy of GetEffectiveCanisterId that accepts the methods that need an
\* inter-canister call and does not report undecodable arguments
GetEffectiveCanisterIdLenient(is_management_canister, method_name, arg_value, canister_id) ==
    IF is_management_canister
    THEN IF method_name \notin MgmtMethods
         THEN ResolveErr("UnsupportedManagementMethod")
         ELSE IF method_name \in InterCanisterOnlyMethods
         THEN ResolveOk(ManagementCanister)
         ELSE IF method_name = "provisional_create_canister_with_cycles"
         THEN ResolveOk(ManagementCanister)
         ELSE IF Decodes(arg_value, DecodedAs(method_name))
              THEN ResolveOk(arg_value.cid)
              ELSE ResolveOk(canister_id)
    ELSE ResolveOk(canister_id)

GetEffectiveCanisterId(is_management_canister, method_name, arg_value, canister_id) ==
    IF is_management_canister
    THEN IF method_name \notin MgmtMethods
         THEN ResolveErr("UnsupportedManagementMethod")
         ELSE IF method_name \in InterCanisterOnlyMethods
         THEN ResolveErr("RequiresInterCanisterContext")
         ELSE IF method_name = "install_code"
         THEN IF Decodes(arg_value, CanisterInstallFields)
              THEN ResolveOk(arg_value.cid)
              ELSE ResolveErr("ArgumentDecodeError")
         ELSE IF method_name = "update_settings"
         THEN IF Decodes(arg_value, UpdateSettingsInFields)
              THEN ResolveOk(arg_value.cid)
              ELSE ResolveErr("ArgumentDecodeError")
         ELSE IF method_name \in LifecycleMethods
         THEN IF Decodes(arg_value, LifecycleInFields)
              THEN ResolveOk(arg_value.cid)
              ELSE ResolveErr("ArgumentDecodeError")
         ELSE \* MgmtMethod::ProvisionalCreateCanisterWithCycles
              ResolveOk(ManagementCanister)
    ELSE ResolveOk(canister_id)

----------------------------------------------------------------------------
(* sign: the handler, sign.rs 58-178 *)

NoEnvelope ==
    [present |-> FALSE, creation |-> [secs |-> 0, nanos |-> 0],
     expiration |-> [secs |-> 0, nanos |-> 0], canister_id |-> NoId,
     method_name |-> "-", arg |-> NotCandid, request_id |-> FALSE,
     kind |-> "-", effective |-> NoId,
     ingress_expiry |-> [secs |-> 0, nanos |-> 0]]

\* SignedMessageV1::new(creation, expiration, network, sender, canister_id,
\* method_name, arg_value), completed by the transport with the captured call:
\* its kind, its effective canister, its ingress expiry, and for an update call
\* its request id.  Network and sender are the same in every run and left out.
Envelope(creation, expiration, o, kind, effective, expiry) ==
    [present |-> TRUE, creation |-> creation, expiration |-> expiration,
     canister_id |-> o.canister, method_name |-> o.method, arg |-> o.arg.blob,
     request_id |-> (kind = "update"), kind |-> kind, effective |-> effective,
     ingress_expiry |-> [secs |-> expiry.secs, nanos |-> expiry.nanos]]

\* get_effective_canister_id was not reached
NotResolved == [reached |-> FALSE, ok |-> FALSE, id |-> NoId, err |-> "-"]

Reached(r) == [reached |-> TRUE, ok |-> r.ok, id |-> r.id, err |-> r.err]

\* what a run leaves: how it ended, the query/update decision, the result of
\* get_effective_canister_id and the envelope
SignFailed(outcome, e, decision, resolved) ==
    [outcome |-> outcome, error |-> e, decision |-> decision,
     resolved |-> resolved, envelope |-> NoEnvelope]

\* exec, in the order of its statements; the first failure ends it
SignResult(o) ==
    LET decision == IsQueryDecision(o.kind, o.query, o.update)
        timeout == ParseDuration(o.expire)
        expiration_system_time == SystemTimeCheckedAdd(o.sysNow, timeout)
        chrono_secs == AsI64(timeout.secs)
        creation == [secs |-> o.utcNow, nanos |-> o.utcNanos]
        expiration == DateTimeCheckedAdd(creation, chrono_secs)
        effective == GetEffectiveCanisterId(o.canister = ManagementCanister,
                                            o.method, o.arg.blob, o.canister)
    IN  IF decision = "mismatch"
        THEN SignFailed("error", "MethodKindMismatch", decision, NotResolved)
        ELSE IF ~o.arg.parses
        THEN SignFailed("error", "ArgumentError", decision, NotResolved)
        ELSE IF ~timeout.ok
        THEN SignFailed("error", "DurationParse", decision, NotResolved)
        ELSE IF ~expiration_system_time.some
        THEN SignFailed("error", "DurationOverflow", decision, NotResolved)
        ELSE IF ChronoSecondsPanics(chrono_secs)
        THEN SignFailed("panic", "Duration::seconds out of bounds", decision,
                        NotResolved)
        ELSE IF ~expiration.some
        THEN SignFailed("error", "DurationOverflow", decision, NotResolved)
        ELSE IF ~effective.ok
        THEN SignFailed("error", effective.err, decision, Reached(effective))
        ELSE IF ~o.agentOk
        THEN SignFailed("error", "AgentError", decision, Reached(effective))
        ELSE [outcome |-> "ok", error |-> "-", decision |-> decision,
              resolved |-> Reached(effective),
              envelope |->
                  Envelope(creation,
                           [secs |-> expiration.secs,
                            nanos |-> expiration.nanos],
                           o, decision, effective.id,
                           expiration_system_time)]

----------------------------------------------------------------------------
(* sign: the inputs of a run *)

\* what blob_from_arguments makes of the argument text: no bytes at all
\* (parses = FALSE), or the bytes
BadArgumentText == [parses |-> FALSE, blob |-> NotCandid]
Blob(b) == [parses |-> TRUE, blob |-> b]

ArgInputs ==
    {BadArgumentText, Blob(NotCandid), Blob(IdRecord("c1")),
     Blob(IdRecord("c2")), Blob(SettingsRecord("c1")),
     Blob(InstallRecord("c2"))}

Term(n, u) == [n |-> n, u |-> u]

\* expire_after strings: "", "0", "5m", "500ms", "1500ms", "1h 30m", "5x",
\* "5", and durations beyond the DateTime range, beyond the chrono::Duration
\* range, beyond the SystemTime range and beyond u64
ExpireInputs ==
    {<<>>, <<Term(0, "")>>, <<Term(5, "m")>>, <<Term(500, "ms")>>,
     <<Term(1500, "ms")>>, <<Term(1, "h"), Term(30, "m")>>,
     <<Term(5, "x")>>, <<Term(5, "")>>,
     <<Term(DateTimeMaxSecs, "s")>>,
     <<Term(ChronoDurationMaxSecs + 1, "s")>>,
     <<Term(I64Max, "s")>>,
     <<Term(U64Max, "m")>>}

MethodInputs == MgmtMethods \cup {"send_dfx"}

\* the sub-second part of the clock at Utc::now()
UtcNanos == {250000000}

SignInputs ==
    [canister : Canisters, method : MethodInputs, query : BOOLEAN,
     update : BOOLEAN, kind : {"none", "query", "update"}, arg : ArgInputs,
     expire : ExpireInputs, sysNow : 1..MaxNow,
     utcNow : 1..(MaxNow + MaxSkew), utcNanos : UtcNanos,
     agentOk : BOOLEAN]

NoOpts ==
    [canister |-> NoId, method |-> "-", query |-> FALSE, update |-> FALSE,
     kind |-> "none", arg |-> BadArgumentText, expire |-> <<>>, sysNow |-> 0,
     utcNow |-> 0, utcNanos |-> 0, agentOk |-> FALSE]

NoResult == SignFailed("none", "-", "-", NotResolved)

\* the call as the transport captures it
CapturedCall(e) ==
    [kind |-> e.kind, canister_id |-> e.canister_id,
     method_name |-> e.method_name, effective |-> e.effective]

\* sign::exec with the options o: one atomic handler
Sign(o) ==
    /\ pc = "idle"
    /\ o.utcNow >= o.sysNow
    /\ o.utcNow - o.sysNow <= MaxSkew
    /\ pc' = "sign"
    /\ opts' = o
    /\ res' = SignResult(o)
    /\ IF res'.outcome = "ok"
       THEN /\ signedCalls' = Append(signedCalls, CapturedCall(res'.envelope))
            /\ files' = files \cup {res'.envelope}
       ELSE UNCHANGED <<signedCalls, files>>
    /\ UNCHANGED transferVars

----------------------------------------------------------------------------
(* Text: a string is a sequence of one-character strings *)

Digits == <<"0", "1", "2", "3", "4", "5", "6", "7", "8", "9">>

IsDigit(c) == \E i \in 1..10 : Digits[i] = c

DigitVal(c) == (CHOOSE i \in 1..10 : Digits[i] = c) - 1

None == [some |-> FALSE, v |-> <<>>]
Some(x) == [some |-> TRUE, v |-> x]

NoNumber == [ok |-> FALSE, v |-> 0]

\* str::parse::<u64>, most significant digit first; acc is the value so far
RECURSIVE ParseDigits(_, _)
ParseDigits(s, acc) ==
    IF s = <<>> THEN [ok |-> TRUE, v |-> acc]
    ELSE IF ~IsDigit(Head(s)) THEN NoNumber
    ELSE IF acc > (U64Max - DigitVal(Head(s))) \div 10 THEN NoNumber
    ELSE ParseDigits(Tail(s), acc * 10 + DigitVal(Head(s)))

ParseU64(s) == IF s = <<>> THEN NoNumber ELSE ParseDigits(s, 0)

\* u64::to_string
RECURSIVE U64ToString(_)
U64ToString(n) ==
    IF n < 10 THEN <<Digits[n + 1]>>
    ELSE Append(U64ToString(n \div 10), Digits[(n % 10) + 1])

----------------------------------------------------------------------------
(* ICPTs, crate::lib::nns_types::icpts *)

\* e8s per ICP
ICP_SUBDIVIDABLE_BY == 100000000

\* the default fee of a transfer, in e8s
TRANSACTION_FEE == 10000

NoIcpts == [ok |-> FALSE, e8s |-> 0]

ICPTsFromE8s(e8s) == [ok |-> TRUE, e8s |-> e8s]

\* ICPTs::new(icpt, e8s)
ICPTsNew(icpt, e8s) ==
    IF e8s >= ICP_SUBDIVIDABLE_BY THEN NoIcpts
    ELSE IF icpt > (U64Max - e8s) \div ICP_SUBDIVIDABLE_BY THEN NoIcpts
    ELSE [ok |-> TRUE, e8s |-> icpt * ICP_SUBDIVIDABLE_BY + e8s]

ICPTsFromIcpts(icpt) == ICPTsNew(icpt, 0)

\* ICPTs + ICPTs, a checked addition
ICPTsAdd(a, b) ==
    IF ~a.ok \/ ~b.ok THEN NoIcpts
    ELSE IF a.e8s > U64Max - b.e8s THEN NoIcpts
    ELSE [ok |-> TRUE, e8s |-> a.e8s + b.e8s]

\* the position of the first "." of s, or 0
DotAt(s) ==
    IF \E i \in 1..Len(s) : s[i] = "."
    THEN CHOOSE i \in 1..Len(s) :
             s[i] = "." /\ \A j \in 1..(i - 1) : s[j] # "."
    ELSE 0

\* the fraction's digits padded with zeros to 8 places
RECURSIVE PadRight(_)
PadRight(s) == IF Len(s) >= 8 THEN s ELSE PadRight(Append(s, "0"))

\* ICPTs::from_str: a decimal with at most 8 places
ICPTsFromStr(s) ==
    LET dot == DotAt(s)
        whole == IF dot = 0 THEN s ELSE SubSeq(s, 1, dot - 1)
        frac == IF dot = 0 THEN <<>> ELSE SubSeq(s, dot + 1, Len(s))
        icpt == ParseU64(whole)
        e8s == IF frac = <<>> THEN [ok |-> dot = 0, v |-> 0]
               ELSE IF Len(frac) > 8 THEN NoNumber
               ELSE ParseU64(PadRight(frac))
    IN IF icpt.ok /\ e8s.ok THEN ICPTsNew(icpt.v, e8s.v) ELSE NoIcpts

----------------------------------------------------------------------------
(* transfer: amount resolution, transfer.rs 104-132 *)

Resolved(e8s) == [outcome |-> "ok", e8s |-> e8s]
ResolveError == [outcome |-> "error", e8s |-> 0]
ResolvePanic == [outcome |-> "panic", e8s |-> 0]

\* get_icpts_from_args(amount, icp, e8s): Options of strings
GetIcptsFromArgs(amt, icp, e8s) ==
    IF ~amt.some
    THEN LET icps == ParseU64(icp.v)
             frac == ParseU64(e8s.v)
         IN IF icp.some /\ ~icps.ok THEN ResolvePanic      \* the unwrap
            ELSE LET whole == IF icp.some THEN ICPTsFromIcpts(icps.v)
                              ELSE ICPTsFromE8s(0)
                 IN IF ~whole.ok THEN ResolveError
                    ELSE IF e8s.some /\ ~frac.ok THEN ResolvePanic
                    ELSE LET icp_from_e8s ==
                                 IF e8s.some THEN ICPTsFromE8s(frac.v)
                                 ELSE ICPTsFromE8s(0)
                             sum == ICPTsAdd(whole, icp_from_e8s)
                         IN IF sum.ok THEN Resolved(sum.e8s)
                            ELSE ResolveError
    ELSE LET a == ICPTsFromStr(amt.v)
         IN IF a.ok THEN Resolved(a.e8s) ELSE ResolveError

----------------------------------------------------------------------------
(* transfer: the options and the encoded argument, transfer.rs 20-71 *)

SEND_METHOD == "send_dfx"

\* an AccountIdentifier's hex text, and texts that are none
AccountHex(principal, sub) == <<"acct", principal, sub>>

AccountIdentifierFromStr(s) ==
    IF Len(s) = 3 /\ s[1] = "acct"
    THEN [ok |-> TRUE, principal |-> s[2], sub |-> s[3]]
    ELSE [ok |-> FALSE, principal |-> NoId, sub |-> <<>>]

NoArgs ==
    [encoded |-> FALSE, memo |-> 0, amount |-> 0, fee |-> 0,
     from_subaccount |-> None, to |-> AccountIdentifierFromStr(<<>>),
     created_at_time |-> None]

\* Encode!(&SendArgs {memo, amount, fee, from_subaccount: None, to,
\* created_at_time: None})
SendArgs(memo, amt, fee, to) ==
    [encoded |-> TRUE, memo |-> memo, amount |-> amt, fee |-> fee,
     from_subaccount |-> None, to |-> to, created_at_time |-> None]

ArgsOutcome(outcome, a) == [outcome |-> outcome, args |-> a]

\* exec, lines 49-71: fee, memo, destination and the encoded argument
EncodeArgs(o, amt) ==
    LET fee == IF o.fee.some THEN ICPTsFromStr(o.fee.v)
               ELSE ICPTsFromE8s(TRANSACTION_FEE)
        memo == ParseU64(IF o.memo.some THEN o.memo.v ELSE <<"0">>)
        to == AccountIdentifierFromStr(o.to)
    IN IF ~fee.ok THEN ArgsOutcome("error", NoArgs)
       ELSE IF ~memo.ok THEN ArgsOutcome("panic", NoArgs)     \* the unwrap
       ELSE IF ~to.ok THEN ArgsOutcome("error", NoArgs)
       ELSE ArgsOutcome("ok", SendArgs(memo.v, amt, fee.e8s, to))

----------------------------------------------------------------------------
(* transfer: the two signed calls and the bundle, transfer.rs 72-101 *)

\* the request id is the content hash of the call: the call stands for it
RequestId(canister_id, method_name, a) ==
    [canister_id |-> canister_id, method_name |-> method_name, arg |-> a]

NoMessage ==
    [present |-> FALSE, canister_id |-> NoId, method_name |-> "-",
     arg |-> NoArgs, kind |-> "-", request_id |-> None]

\* sign::exec as transfer calls it: the envelope of the call, with a request
\* id when the call is an update
SignMessage(so, kind) ==
    LET decision == IsQueryDecision(kind, so.query, so.update)
    IN [present |-> decision # "mismatch", canister_id |-> so.canister_id,
        method_name |-> so.method_name, arg |-> so.argument, kind |-> decision,
        request_id |->
            IF decision = "update"
            THEN Some(RequestId(so.canister_id, so.method_name, so.argument))
            ELSE None]

\* exec, lines 72-79: the SignOpts of the ledger call
TransferSignOpts(canister_id, a) ==
    [canister_id |-> canister_id, method_name |-> SEND_METHOD,
     query |-> FALSE, update |-> TRUE, argument |-> a, type |-> "raw"]

\* a copy of StatusSignOpts that polls the management canister
StatusSignOptsOtherCanister(msg, canister_id) ==
    [request_id |-> <<"0x", msg.request_id.v>>,
     canister_id |-> ManagementCanister]

\* exec, lines 81-91: the RequestStatusSignOpts of the status poll
StatusSignOpts(msg, canister_id) ==
    [request_id |-> <<"0x", msg.request_id.v>>, canister_id |-> canister_id]

NoStatus == [present |-> FALSE, canister_id |-> NoId, request_id |-> None]

\* request_status_sign::exec: the signed read of the request's status
RequestStatusSign(ro) ==
    [present |-> TRUE, canister_id |-> ro.canister_id,
     request_id |->
         IF Len(ro.request_id) = 2 /\ ro.request_id[1] = "0x"
         THEN Some(ro.request_id[2]) ELSE None]

NoBundle == [none |-> TRUE]

\* a copy of Bundle without the status poll
BundleIngressOnly(msg, status) == [ingress |-> msg]

\* exec, lines 94-101: the document
Bundle(msg, status) == [ingress |-> msg, request_status |-> status]

\* a copy of NextStage that assembles the bundle right after the ledger call
NextStageSkipsStatusPoll(s) ==
    CASE s = "Init"             -> "AmountResolved"
      [] s = "AmountResolved"   -> "ArgsEncoded"
      [] s = "ArgsEncoded"      -> "TransferSigned"
      [] s = "TransferSigned"   -> "BundleAssembled"
      [] s = "StatusPollSigned" -> "BundleAssembled"
      [] OTHER                  -> s

\* the stage exec reaches when the statement it is at succeeds
NextStage(s) ==
    CASE s = "Init"             -> "AmountResolved"
      [] s = "AmountResolved"   -> "ArgsEncoded"
      [] s = "ArgsEncoded"      -> "TransferSigned"
      [] s = "TransferSigned"   -> "StatusPollSigned"
      [] s = "StatusPollSigned" -> "BundleAssembled"
      [] OTHER                  -> s

----------------------------------------------------------------------------
(* neuron: the staking flow, neuron.rs 35-78 *)

\* the bytes of the name with zero bytes pushed to the front up to 8 bytes
RECURSIVE PadFront(_)
PadFront(bytes) == IF Len(bytes) < 8 THEN PadFront(<<0>> \o bytes) ELSE bytes

\* u64::from_be_bytes; acc is the value of the bytes read so far
RECURSIVE FromBeBytes(_, _)
FromBeBytes(bytes, acc) ==
    IF bytes = <<>> THEN acc
    ELSE FromBeBytes(Tail(bytes), acc * 256 + Head(bytes))

\* convert_name_to_memo: copy_from_slice panics unless the padded name is
\* exactly 8 bytes long
ConvertNameToMemo(name) ==
    LET bytes == PadFront(name)
    IN IF Len(bytes) # 8 THEN [ok |-> FALSE, v |-> 0]
       ELSE [ok |-> TRUE, v |-> FromBeBytes(bytes, 0)]

\* get_neuron_subaccount: the hashed bytes stand for the digest
GetNeuronSubaccount(controller, nonce) ==
    <<12, "neuron-stake", controller, nonce>>

Controller == "controller"

\* neuron_name_validator: the name's bytes are counted, whatever they are
NeuronNameValidator(name) == ~(Len(name) > 8)

NoNeuron == [via |-> "-", name |-> <<>>, nonce |-> NoNumber]

\* the TransferOpts that exec builds for the staking transfer
NeuronTransferOpts(amt, fee, nonce) ==
    [to |-> AccountHex(Controller, GetNeuronSubaccount(Controller, nonce)),
     amount |-> Some(amt), icp |-> None, e8s |-> None,
     memo |-> Some(U64ToString(nonce)), fee |-> fee]

----------------------------------------------------------------------------
(* transfer: the inputs of a run *)

AmountTexts == {<<"1", ".", "5">>, <<"2">>, <<"1", ".", "x">>}
IcpTexts == {<<"1">>, <<"x">>}
E8sTexts == {<<"5", "0", "0", "0", "0", "0", "0", "0">>, <<"x">>}
MemoTexts == {<<"7">>, <<"x">>}
FeeTexts == {<<"0", ".", "0", "0", "0", "2">>, <<"f">>}
ToTexts == {AccountHex("alice", <<>>), <<"zz">>}

Opt(S) == {None} \cup {Some(x) : x \in S}

TransferInputs ==
    [to : ToTexts, amount : Opt(AmountTexts), icp : Opt(IcpTexts),
     e8s : Opt(E8sTexts), memo : Opt(MemoTexts), fee : Opt(FeeTexts)]

\* neuron names as their UTF-8 bytes: "", "a", "ab", "abc", the two bytes of
\* a non-ASCII character, NUL NUL NUL NUL NUL NUL "1" "2" (8 bytes),
\* "123456789" and nine NUL bytes
NeuronNames ==
    {<<>>, <<97>>, <<97, 98>>, <<97, 98, 99>>, <<195, 169>>,
     <<0, 0, 0, 0, 0, 0, 49, 50>>,
     <<49, 50, 51, 52, 53, 54, 55, 56, 57>>,
     <<0, 0, 0, 0, 0, 0, 0, 0, 0>>}

NoTransferOpts ==
    [to |-> <<>>, amount |-> None, icp |-> None, e8s |-> None,
     memo |-> None, fee |-> None]

\* clap's checks of the transfer command line: the validators of amount, icp,
\* e8s, memo and fee, and conflicts_with("amount") of icp and e8s
ClapAccepts(o) ==
    /\ o.amount.some => ICPTsFromStr(o.amount.v).ok
    /\ o.icp.some => ParseU64(o.icp.v).ok /\ ~o.amount.some
    /\ o.e8s.some => ParseU64(o.e8s.v).ok /\ ~o.amount.some
    /\ o.memo.some => ParseU64(o.memo.v).ok
    /\ o.fee.some => ICPTsFromStr(o.fee.v).ok

----------------------------------------------------------------------------
(* The state machine *)

Init ==
    /\ pc = "idle"
    /\ opts = NoOpts
    /\ res = NoResult
    /\ signedCalls = <<>>
    /\ files = {}
    /\ topts = NoTransferOpts
    /\ caller = "-"
    /\ tstate = "Idle"
    /\ tfailed = "no"
    /\ amount = -1
    /\ args = NoArgs
    /\ ingress = NoMessage
    /\ reqStatus = NoStatus
    /\ bundle = NoBundle
    /\ neuron = NoNeuron

\* transfer::exec is entered with the options o
EnterTransfer(c, o) ==
    /\ pc' = "transfer"
    /\ caller' = c
    /\ topts' = o
    /\ tstate' = "Init"
    /\ UNCHANGED <<tfailed, amount, args, ingress, reqStatus, bundle>>
    /\ UNCHANGED <<signVars, signedCalls>>

\* the transfer command: clap parses the command line, then exec runs
CliTransfer(o) ==
    /\ pc = "idle"
    /\ UNCHANGED neuron
    /\ IF ClapAccepts(o)
       THEN EnterTransfer("cli", o)
       ELSE /\ pc' = "rejected"
            /\ caller' = "cli"
            /\ topts' = o
            /\ UNCHANGED <<tstate, tfailed, amount, args, ingress, reqStatus,
                           bundle, signVars, signedCalls>>

\* transfer::exec called with options that the caller built
ApiTransfer(o) ==
    /\ pc = "idle"
    /\ UNCHANGED neuron
    /\ EnterTransfer("api", o)

\* neuron::exec: the staking transfer
NeuronStake(via, name, amt, fee) ==
    /\ pc = "idle"
    /\ LET nonce == ConvertNameToMemo(name)
       IN /\ neuron' = [via |-> via, name |-> name, nonce |-> nonce]
          /\ IF nonce.ok
             THEN EnterTransfer("neuron",
                                NeuronTransferOpts(amt, fee, nonce.v))
             ELSE /\ pc' = "panicked"
                  /\ caller' = "neuron"
                  /\ UNCHANGED <<topts, tstate, tfailed, amount, args,
                                 ingress, reqStatus, bundle, signVars,
                                 signedCalls>>

\* the neuron command: clap checks the name, then exec runs
CliNeuronStake(name, amt, fee) ==
    /\ pc = "idle"
    /\ IF NeuronNameValidator(name)
       THEN NeuronStake("cli", name, amt, fee)
       ELSE /\ pc' = "rejected"
            /\ caller' = "neuron"
            /\ neuron' = [via |-> "cli", name |-> name, nonce |-> NoNumber]
            /\ UNCHANGED <<topts, tstate, tfailed, amount, args, ingress,
                           reqStatus, bundle, signVars, signedCalls>>

\* exec, line 48
ResolveAmount ==
    /\ pc = "transfer" /\ tstate = "Init" /\ tfailed = "no"
    /\ LET r == GetIcptsFromArgs(topts.amount, topts.icp, topts.e8s)
       IN IF r.outcome = "ok"
          THEN /\ amount' = r.e8s
               /\ tstate' = NextStage(tstate)
               /\ UNCHANGED tfailed
          ELSE /\ tfailed' = r.outcome
               /\ UNCHANGED <<amount, tstate>>
    /\ UNCHANGED <<neuron, pc, topts, caller, args, ingress, reqStatus, bundle,
                   signVars, signedCalls>>

\* exec, lines 49-71
EncodeArguments ==
    /\ pc = "transfer" /\ tstate = "AmountResolved" /\ tfailed = "no"
    /\ LET r == EncodeArgs(topts, amount)
       IN IF r.outcome = "ok"
          THEN /\ args' = r.args
               /\ tstate' = NextStage(tstate)
               /\ UNCHANGED tfailed
          ELSE /\ tfailed' = r.outcome
               /\ UNCHANGED <<args, tstate>>
    /\ UNCHANGED <<neuron, pc, topts, caller, amount, ingress, reqStatus, bundle,
                   signVars, signedCalls>>

\* exec, lines 72-80: the ledger call is signed; kind is what the local
\* interface description says of send_dfx, signOk whether signing succeeds
SignTransfer(kind, signOk) ==
    /\ pc = "transfer" /\ tstate = "ArgsEncoded" /\ tfailed = "no"
    /\ LET msg == SignMessage(TransferSignOpts(LEDGER_CANISTER_ID, args), kind)
       IN IF signOk /\ msg.present
          THEN /\ ingress' = msg
               /\ signedCalls' = Append(signedCalls,
                      [kind |-> msg.kind, canister_id |-> msg.canister_id,
                       method_name |-> msg.method_name,
                       effective |-> msg.canister_id])
               /\ tstate' = NextStage(tstate)
               /\ UNCHANGED tfailed
          ELSE /\ tfailed' = "error"
               /\ UNCHANGED <<ingress, signedCalls, tstate>>
    /\ UNCHANGED <<neuron, pc, topts, caller, amount, args, reqStatus, bundle,
                   signVars>>

\* exec, lines 81-92: the request id is taken from the signed ledger call and
\* the status poll is signed
SignStatusPoll(signOk) ==
    /\ pc = "transfer" /\ tstate = "TransferSigned" /\ tfailed = "no"
    /\ IF ~ingress.request_id.some
       THEN /\ tfailed' = "panic"                            \* the expect
            /\ UNCHANGED <<reqStatus, signedCalls, tstate>>
       ELSE IF ~signOk
       THEN /\ tfailed' = "error"
            /\ UNCHANGED <<reqStatus, signedCalls, tstate>>
       ELSE LET ro == StatusSignOpts(ingress, LEDGER_CANISTER_ID)
            IN /\ reqStatus' = RequestStatusSign(ro)
               /\ signedCalls' = Append(signedCalls,
                      [kind |-> "read_state", canister_id |-> ro.canister_id,
                       method_name |-> "request_status",
                       effective |-> ro.canister_id])
               /\ tstate' = NextStage(tstate)
               /\ UNCHANGED tfailed
    /\ UNCHANGED <<neuron, pc, topts, caller, amount, args, ingress, bundle, signVars>>

\* exec, lines 94-101
AssembleBundle ==
    /\ pc = "transfer" /\ tstate = "StatusPollSigned" /\ tfailed = "no"
    /\ bundle' = Bundle(ingress, reqStatus)
    /\ tstate' = NextStage(tstate)
    /\ UNCHANGED <<neuron, pc, topts, caller, tfailed, amount, args, ingress,
                   reqStatus, signVars, signedCalls>>

\* the sign command
SignCommand == pc = "idle" /\ \E o \in SignInputs : Sign(o)

\* the transfer command
TransferCommand == pc = "idle" /\ \E o \in TransferInputs : CliTransfer(o)

\* a caller of transfer::exec that builds the options itself
TransferCall == pc = "idle" /\ \E o \in TransferInputs : ApiTransfer(o)

\* the neuron staking flow, from the command line
NeuronCommand ==
    /\ pc = "idle"
    /\ \E name \in NeuronNames, amt \in AmountTexts, fee \in Opt(FeeTexts) :
           CliNeuronStake(name, amt, fee)

\* neuron::exec called with options that the caller built
NeuronCall ==
    /\ pc = "idle"
    /\ \E name \in NeuronNames, amt \in AmountTexts, fee \in Opt(FeeTexts) :
           NeuronStake("api", name, amt, fee)

\* the local interface description's entry for send_dfx, and whether the
\* agent signs the ledger call
SignTransferStep ==
    /\ pc = "transfer"
    /\ \E kind \in {"none", "query", "update"}, signOk \in BOOLEAN :
           SignTransfer(kind, signOk)

SignStatusPollStep ==
    pc = "transfer" /\ \E signOk \in BOOLEAN : SignStatusPoll(signOk)

Next ==
    \/ SignCommand
    \/ TransferCommand
    \/ TransferCall
    \/ NeuronCommand
    \/ NeuronCall
    \/ ResolveAmount
    \/ EncodeArguments
    \/ SignTransferStep
    \/ SignStatusPollStep
    \/ AssembleBundle

Spec == Init /\ [][Next]_vars

----------------------------------------------------------------------------
(* Properties *)

\* a timestamp before another
Before(a, b) == a.secs < b.secs \/ (a.secs = b.secs /\ a.nanos < b.nanos)

\* C1: the query/update decision of sign follows the table on (known method
\* kind, --query, --update) whatever the other options are: a known query
\* method is signed as a query unless --update is set, a known update method
\* with --query fails with MethodKindMismatch and is an update otherwise, an
\* unknown method is a query exactly when --query is set; the call captured is
\* of the decided kind, and a known update method is never signed as a query.
C1_DecisionTable ==
    pc = "sign" =>
        /\ opts.kind = "query" /\ ~opts.update => res.decision = "query"
        /\ opts.kind = "query" /\ opts.update => res.decision = "update"
        /\ opts.kind = "update" /\ opts.query =>
               /\ res.decision = "mismatch"
               /\ res.outcome = "error"
               /\ res.error = "MethodKindMismatch"
        /\ opts.kind = "update" /\ ~opts.query => res.decision = "update"
        /\ opts.kind = "none" /\ opts.query => res.decision = "query"
        /\ opts.kind = "none" /\ ~opts.query => res.decision = "update"
        /\ res.outcome = "ok" =>
               /\ res.envelope.kind = res.decision
               /\ signedCalls[Len(signedCalls)].kind = res.decision
               /\ res.envelope.request_id = (res.decision = "update")
        /\ opts.kind = "update" =>
               \A i \in 1..Len(signedCalls) : signedCalls[i].kind # "query"

\* a method known as a query was signed as an update because --update was set
C1_Witness ==
    /\ pc = "sign" /\ opts.kind = "query" /\ opts.update /\ ~opts.query
    /\ res.outcome = "ok" /\ res.envelope.kind = "update"

\* C2: every envelope that sign writes has its expiration strictly after its
\* creation.
C2_ExpirationAfterCreation ==
    \A e \in files : Before(e.creation, e.expiration)

\* C3: for a call to the management canister, resolution returns the canister
\* id of the argument for install_code, update_settings and the lifecycle
\* methods, and the management canister's own id for
\* provisional_create_canister_with_cycles whatever the argument bytes are.
C3_ManagementTarget ==
    (pc = "sign" /\ opts.canister = ManagementCanister /\ res.resolved.reached)
    =>  /\ opts.method = "provisional_create_canister_with_cycles" =>
               res.resolved.ok /\ res.resolved.id = ManagementCanister
        /\ opts.method = "install_code"
           /\ opts.arg.blob \in {InstallRecord(c) : c \in TargetIds} =>
               res.resolved.ok /\ res.resolved.id = opts.arg.blob.cid
        /\ opts.method = "update_settings"
           /\ opts.arg.blob \in {SettingsRecord(c) : c \in TargetIds} =>
               res.resolved.ok /\ res.resolved.id = opts.arg.blob.cid
        /\ opts.method \in
               {"start_canister", "stop_canister", "canister_status",
                "delete_canister", "deposit_cycles", "uninstall_code",
                "provisional_top_up_canister"}
           /\ opts.arg.blob \in {IdRecord(c) : c \in TargetIds} =>
               res.resolved.ok /\ res.resolved.id = opts.arg.blob.cid
        /\ res.outcome = "ok" => res.envelope.effective = res.resolved.id

\* update_settings with {canister_id: c1, settings} was signed for c1
C3_Witness ==
    /\ pc = "sign" /\ opts.canister = ManagementCanister
    /\ opts.method = "update_settings"
    /\ opts.arg.blob = SettingsRecord("c1")
    /\ res.outcome = "ok" /\ res.envelope.effective = "c1"

\* C4: for a call to another canister than the management canister,
\* resolution returns the call's target and never fails, for every method name
\* and every argument.
C4_OtherTargetsResolveToThemselves ==
    (pc = "sign" /\ opts.canister # ManagementCanister
     /\ res.decision # "mismatch" /\ opts.arg.parses
     /\ res.error \notin {"DurationParse", "DurationOverflow"}
     /\ res.outcome # "panic")
    =>  /\ res.resolved.reached /\ res.resolved.ok
        /\ res.resolved.id = opts.canister
        /\ res.outcome = "ok" => res.envelope.effective = opts.canister
        /\ res.outcome = "error" => res.error = "AgentError"

\* the ledger was called with a method name that is no management method and
\* with bytes that are no Candid value, and the call was signed for the ledger
C4_Witness ==
    /\ pc = "sign" /\ opts.canister = LEDGER_CANISTER_ID
    /\ opts.method = "send_dfx" /\ opts.arg.blob = NotCandid
    /\ res.outcome = "ok" /\ res.envelope.effective = LEDGER_CANISTER_ID

\* C5: for a call to the management canister, a method name that is no
\* management method fails with UnsupportedManagementMethod, create_canister
\* fails with RequiresInterCanisterContext and an argument that does not
\* decode as the method's record fails with ArgumentDecodeError; in each case
\* sign fails, no call is captured and no envelope is written.
C5_ResolutionFailures ==
    LET unsupported == opts.method \notin MgmtMethods
        needsContext == opts.method = "create_canister"
        undecodable ==
            \/ opts.method = "install_code"
               /\ ~(opts.arg.blob.candid
                    /\ CanisterInstallFields \subseteq opts.arg.blob.fields)
            \/ opts.method = "update_settings"
               /\ ~(opts.arg.blob.candid
                    /\ UpdateSettingsInFields \subseteq opts.arg.blob.fields)
            \/ opts.method \in LifecycleMethods
               /\ ~(opts.arg.blob.candid
                    /\ LifecycleInFields \subseteq opts.arg.blob.fields)
    IN (pc = "sign" /\ opts.canister = ManagementCanister
        /\ (unsupported \/ needsContext \/ undecodable))
       =>  /\ res.outcome # "ok"
           /\ signedCalls = <<>>
           /\ files = {}
           /\ res.resolved.reached =>
                  /\ ~res.resolved.ok
                  /\ res.outcome = "error"
                  /\ res.error = res.resolved.err
                  /\ unsupported =>
                         res.error = "UnsupportedManagementMethod"
                  /\ needsContext =>
                         res.error = "RequiresInterCanisterContext"
                  /\ undecodable => res.error = "ArgumentDecodeError"

\* start_canister of the management canister with bytes that are no Candid
\* value failed in resolution, with nothing signed
C5_Witness ==
    /\ pc = "sign" /\ opts.canister = ManagementCanister
    /\ opts.method = "start_canister" /\ opts.arg.blob = NotCandid
    /\ res.resolved.reached /\ res.error = "ArgumentDecodeError"
    /\ signedCalls = <<>> /\ files = {}

\* C6: whenever amount is given together with icp or e8s, amount resolution
\* fails and nothing is signed, whoever called transfer: exec never gets past
\* its first stage.
C6_AmbiguousAmountRejected ==
    (pc = "transfer" /\ topts.amount.some
     /\ (topts.icp.some \/ topts.e8s.some))
    => tstate = "Init" /\ signedCalls = <<>>

\* the stages of a transfer, in order
C7_Stages ==
    <<"Idle", "Init", "AmountResolved", "ArgsEncoded", "TransferSigned",
      "StatusPollSigned", "BundleAssembled">>

C7_StageNo(st) == CHOOSE i \in 1..Len(C7_Stages) : C7_Stages[i] = st

\* what each stage of a transfer has produced
C7_StageInv ==
    /\ amount >= 0 <=> C7_StageNo(tstate) >= 3
    /\ args.encoded <=> C7_StageNo(tstate) >= 4
    /\ ingress.present <=> C7_StageNo(tstate) >= 5
    /\ reqStatus.present <=> C7_StageNo(tstate) >= 6
    /\ bundle # NoBundle <=> C7_StageNo(tstate) = 7
    /\ pc = "transfer" =>
           Len(signedCalls) = (IF ingress.present THEN 1 ELSE 0)
                              + (IF reqStatus.present THEN 1 ELSE 0)
    /\ tfailed # "no" => bundle = NoBundle

\* what a step of a transfer may do
C7_StageStep ==
    /\ tstate' # tstate =>
           /\ C7_StageNo(tstate') = C7_StageNo(tstate) + 1
           /\ tfailed = "no" /\ tfailed' = "no"
    /\ tfailed # "no" =>
           /\ tstate' = tstate /\ tfailed' = tfailed
           /\ signedCalls' = signedCalls /\ bundle' = bundle
    /\ tfailed = "no" /\ tfailed' # "no" =>
           /\ tstate' = tstate /\ bundle' = bundle
           /\ amount' = amount /\ args' = args
           /\ ingress' = ingress /\ reqStatus' = reqStatus
    /\ Len(signedCalls') >= Len(signedCalls)
    /\ SubSeq(signedCalls', 1, Len(signedCalls)) = signedCalls

\* C7: a transfer passes through Init, AmountResolved, ArgsEncoded,
\* TransferSigned, StatusPollSigned and BundleAssembled one after the other,
\* never skipping or repeating a stage; the ledger call is signed only with
\* the amount resolved and the argument encoded, the status poll only after
\* the ledger call, the bundle only after both; a failure leaves the transfer
\* at the stage it was in, after which no step runs, no bundle is returned
\* and nothing already signed is taken back.
C7_StagesInOrder == []C7_StageInv /\ [][C7_StageStep]_vars

\* a transfer failed while signing the status poll: the ledger call stays
\* signed and there is no bundle
C7_Witness ==
    /\ pc = "transfer" /\ tstate = "TransferSigned" /\ tfailed = "error"
    /\ Len(signedCalls) = 1 /\ ingress.present /\ bundle = NoBundle

\* C8: the document a transfer returns has exactly the fields ingress and
\* request_status; ingress is the envelope of the update call of send_dfx to
\* the ledger and carries a request id, request_status is the status poll of
\* that request id at the ledger; no other document is ever returned.
C8_BundleHasBoth ==
    /\ tstate = "BundleAssembled" <=> bundle # NoBundle
    /\ bundle # NoBundle =>
           /\ DOMAIN bundle = {"ingress", "request_status"}
           /\ bundle.ingress.present
           /\ bundle.ingress.kind = "update"
           /\ bundle.ingress.canister_id = LEDGER_CANISTER_ID
           /\ bundle.ingress.method_name = "send_dfx"
           /\ bundle.ingress.arg = args
           /\ bundle.ingress.request_id.some
           /\ bundle.request_status.present
           /\ bundle.request_status.request_id = bundle.ingress.request_id
           /\ bundle.request_status.canister_id = LEDGER_CANISTER_ID

\* the staking flow's transfer returned its bundle
C8_Witness ==
    /\ tstate = "BundleAssembled" /\ caller = "neuron"
    /\ bundle # NoBundle /\ bundle.request_status.request_id.some

\* C9: in every envelope that sign builds, creation is the time of signing and
\* expiration - creation is exactly the parsed expire_after duration.
C9_ExactDuration ==
    (pc = "sign" /\ res.outcome = "ok") =>
        LET d == ParseDuration(opts.expire)
            e == res.envelope
            borrow == IF e.expiration.nanos < e.creation.nanos THEN 1 ELSE 0
        IN /\ e.creation = [secs |-> opts.utcNow, nanos |-> opts.utcNanos]
           /\ e.expiration.secs - e.creation.secs - borrow = d.secs
           /\ e.expiration.nanos - e.creation.nanos + borrow * NanosPerSec
              = d.nanos

\* C10: an expire_after that does not parse, or whose duration takes the
\* expiration beyond what the timestamps hold, makes sign return an error
\* with no call captured and no envelope written.
C10_TimeErrorsAreErrors ==
    LET d == ParseDuration(opts.expire)
    IN (pc = "sign" /\ (~d.ok \/ d.secs > DateTimeMaxSecs - opts.utcNow))
       => /\ res.outcome = "error"
          /\ signedCalls = <<>>
          /\ files = {}

\* ---------------------------------------------------------------------
\* C11: whichever way the staking flow is started, a neuron name is accepted
\* exactly when it is at most 8 ASCII bytes and otherwise the flow ends with
\* an error (never a panic); for an accepted name the nonce is the
\* big-endian value of the name's bytes, the memo of the transfer is that
\* nonce in decimal and the destination is the account of the controller
\* and the subaccount derived from (controller, nonce).
C11_NameRuleAndNonce ==
    caller = "neuron" =>
        IF /\ Len(neuron.name) <= 8
           /\ \A i \in 1..Len(neuron.name) : neuron.name[i] < 128
        THEN /\ pc = "transfer"
             /\ neuron.nonce.ok
             /\ neuron.nonce.v = FromBeBytes(neuron.name, 0)
             /\ topts.memo = Some(U64ToString(neuron.nonce.v))
             /\ topts.to = AccountHex(Controller,
                                GetNeuronSubaccount(Controller, neuron.nonce.v))
        ELSE pc = "rejected"

====
